---------------------------- MODULE Spec2Model ----------------------------
(***************************************************************************)
(* State-machine model of fgc's Thorup-style coreset samplers:             *)
(*   util::ScopedSyntheticVertex, thorup::thorup_d,                        *)
(*   thorup::sample_from_graph, thorup::get_costs,                         *)
(*   thorup::thorup_sample_mincost and tnk::idnc.                          *)
(*                                                                         *)
(* Vertices are the vecS descriptors 0 .. nv-1; add_vertex returns nv.     *)
(* Doubles are modelled by the naturals they hold, with DBL_MAX (the       *)
(* distance boost::dijkstra_shortest_paths leaves on an unreached vertex)  *)
(* and PosInf (the IEEE sum of two DBL_MAX) on top.                        *)
(***************************************************************************)
EXTENDS Integers, Sequences, FiniteSets, TLC

\* ------------------------------------------------------------- bounds ----
MaxN == 3          \* largest number of real vertices of an input graph
MaxW == 2          \* edge weights range over 0 .. MaxW
MaxContainer == 2  \* longest SampleSet handed to get_costs
MaxPerRound == 2   \* largest nperround / samples_per_round argument
MaxRounds == 2     \* largest maxnumrounds / iterations argument
MaxK == 1          \* largest k handed to thorup_sample_mincost and idnc
MaxTrials == 2     \* largest num_iter handed to thorup_sample_mincost
MaxHops == 8       \* cap on the recorded iterations of get_costs' while loop

\* ------------------------------------------------------------ doubles ----
\* std::numeric_limits<double>::max(): dijkstra's default distance_inf.
DBL_MAX == 1000000
PosInf == DBL_MAX + 1

\* IEEE addition on the modelled values: a small addend is absorbed by
\* DBL_MAX, DBL_MAX + DBL_MAX overflows to +inf.
DAdd(a, b) ==
    IF a = PosInf \/ b = PosInf THEN PosInf
    ELSE IF a = DBL_MAX /\ b = DBL_MAX THEN PosInf
    ELSE IF a = DBL_MAX \/ b = DBL_MAX THEN DBL_MAX
    ELSE a + b

RECURSIVE DSum(_, _)
\* sum of d[0] .. d[n-1], accumulated left to right
DSum(d, n) == IF n = 0 THEN 0 ELSE DAdd(DSum(d, n - 1), d[n - 1])

IsFinite(x) == x < DBL_MAX

\* -------------------------------------------------------------- graph ----
\* A graph is [nv, E]: E is the edge list, each edge <<source, target, w>>.
Min2(a, b) == IF a <= b THEN a ELSE b

SetMin(S) == CHOOSE x \in S : \A y \in S : x <= y

SeqRange(s) == {s[x] : x \in DOMAIN s}

add_vertex(g) == [nv |-> g.nv + 1, E |-> g.E]

\* a directedS list stores the arc u -> v; an undirectedS list stores one
\* edge that both endpoints see
add_edge(u, v, w, g) == [nv |-> g.nv, E |-> Append(g.E, <<u, v, w>>)]

clear_vertex(v, g) ==
    [nv |-> g.nv, E |-> SelectSeq(g.E, LAMBDA e : e[1] # v /\ e[2] # v)]

\* vecS storage: the descriptors above v move down by one
remove_vertex(v, g) ==
    LET ren(u) == IF u > v THEN u - 1 ELSE u
    IN  [nv |-> g.nv - 1,
         E  |-> [x \in DOMAIN g.E |-> <<ren(g.E[x][1]), ren(g.E[x][2]), g.E[x][3]>>]]

RECURSIVE add_edges_from(_, _, _, _)
\* for(v: vs) add_edge(src, v, 0., g), in the order of vs
add_edges_from(src, vs, x, g) ==
    IF x > Len(vs) THEN g
    ELSE add_edges_from(src, vs, x + 1, add_edge(src, vs[x], 0, g))

\* out_edges(u): the <<target, weight>> pairs dijkstra examines at u
OutEdges(g, dir, u) ==
    {<<g.E[x][2], g.E[x][3]>> : x \in {y \in DOMAIN g.E : g.E[y][1] = u}}
    \cup (IF dir THEN {}
          ELSE {<<g.E[x][1], g.E[x][3]>> : x \in {y \in DOMAIN g.E : g.E[y][2] = u}})

\* ScopedSyntheticVertex(ref): vtx_ = add_vertex(ref_)
ScopeOpen(g) == add_vertex(g)

\* a destructor that clears the vertex's edges and forgets remove_vertex
ScopeCloseKeepsVertex(vtx, g) == clear_vertex(vtx, g)

\* ~ScopedSyntheticVertex(): clear_vertex(vtx_, ref_); remove_vertex(vtx_, ref_)
ScopeClose(vtx, g) == remove_vertex(vtx, clear_vertex(vtx, g))

\* --------------------------------------------------- shortest paths ------
\* boost::dijkstra_shortest_paths(g, s, distance_map(d).predecessor_map(p)):
\* every vertex starts at d = DBL_MAX, p[v] = v; the source at d = 0.  The
\* vertex popped is one of least distance among the discovered ones; which
\* of several equal ones the heap yields is left open, so the operator
\* returns every outcome [d, p] a pop order can produce.
RelaxFrom(g, dir, u, st) ==
    LET out == OutEdges(g, dir, u)
        tgt == {e[1] : e \in out} \ (st.black \cup {u})
        best(v) == SetMin({e[2] : e \in {f \in out : f[1] = v}})
        nd(v) == DAdd(st.d[u], best(v))
    IN  [d     |-> [v \in DOMAIN st.d |->
                      IF v \in tgt /\ nd(v) < st.d[v] THEN nd(v) ELSE st.d[v]],
         p     |-> [v \in DOMAIN st.p |->
                      IF v \in tgt /\ nd(v) < st.d[v] THEN u ELSE st.p[v]],
         gray  |-> (st.gray \ {u}) \cup tgt,
         black |-> st.black \cup {u}]

RECURSIVE DijkstraRun(_, _, _)
DijkstraRun(g, dir, st) ==
    IF st.gray = {} THEN {[d |-> st.d, p |-> st.p]}
    ELSE LET least == SetMin({st.d[v] : v \in st.gray})
         IN  UNION {DijkstraRun(g, dir, RelaxFrom(g, dir, u, st)) :
                       u \in {v \in st.gray : st.d[v] = least}}

dijkstra_shortest_paths(g, dir, s) ==
    DijkstraRun(g, dir,
        [d     |-> [v \in 0 .. g.nv - 1 |-> IF v = s THEN 0 ELSE DBL_MAX],
         p     |-> [v \in 0 .. g.nv - 1 |-> v],
         gray  |-> {s},
         black |-> {}])

\* ---------------------------------------------------------- variables ----
VARIABLES
    g0,        \* the caller's graph as it was handed in
    directed,  \* TRUE: directedS/bidirectionalS edge list, FALSE: undirectedS
    g,         \* the graph object x, mutated in place
    top,       \* the entry point the caller invoked, "idle" between calls
    pc,        \* position inside the running call
    status,    \* "ok" or the failure that left the call
    ret,       \* the value handed back to the caller
    gc,        \* get_costs' locals
    td,        \* thorup_d's locals
    sfg,       \* sample_from_graph's locals
    tsm,       \* thorup_sample_mincost's locals
    idnc_      \* idnc's locals

vars == <<g0, directed, g, top, pc, status, ret, gc, td, sfg, tsm, idnc_>>

NoFrame == [none |-> TRUE]
NoRet == <<>>

\* ------------------------------------------------------------- inputs ----
Weights == 0 .. MaxW
NoEdge == 0 - 1

RECURSIVE PairsFrom(_, _, _)
\* the vertex pairs u < v of an n-vertex graph, in lexicographic order
PairsFrom(u, v, n) ==
    IF u >= n - 1 THEN <<>>
    ELSE IF v >= n THEN PairsFrom(u + 1, u + 2, n)
    ELSE <<<<u, v>>>> \o PairsFrom(u, v + 1, n)

RECURSIVE EdgeList(_, _, _, _)
\* the edge list a caller builds from a symmetric weight table: one edge
\* per pair when undirected, the two opposite arcs when directed
EdgeList(pairs, wt, dir, x) ==
    IF x > Len(pairs) THEN <<>>
    ELSE LET u == pairs[x][1]
             v == pairs[x][2]
             w == wt[pairs[x]]
             here == IF w = NoEdge THEN <<>>
                     ELSE IF dir THEN <<<<u, v, w>>, <<v, u, w>>>>
                     ELSE <<<<u, v, w>>>>
         IN  here \o EdgeList(pairs, wt, dir, x + 1)

InputGraphs(dir) ==
    UNION {{[nv |-> n, E |-> EdgeList(PairsFrom(0, 1, n), wt, dir, 1)] :
               wt \in [SeqRange(PairsFrom(0, 1, n)) -> Weights \cup {NoEdge}]} :
           n \in 1 .. MaxN}

RealVertices == 0 .. g0.nv - 1

RECURSIVE SeqsUpTo(_, _)
\* the sequences over S of length at most n
SeqsUpTo(S, n) ==
    IF n = 0 THEN {<<>>}
    ELSE LET shorter == SeqsUpTo(S, n - 1)
         IN  shorter \cup {Append(s, x) : s \in shorter, x \in S}

\* what rng() can return; rng() % R.size() then reaches every index of R
RngValues == 0 .. MaxN

\* ---------------------------------------------------- assert_connected ----
RECURSIVE ReachFrom(_, _)
\* the vertices joined to those of S by edges taken in either direction
ReachFrom(gr, S) ==
    LET more == S \cup {gr.E[x][2] : x \in {y \in DOMAIN gr.E : gr.E[y][1] \in S}}
                  \cup {gr.E[x][1] : x \in {y \in DOMAIN gr.E : gr.E[y][2] \in S}}
    IN  IF more = S THEN S ELSE ReachFrom(gr, more)

IsConnected(gr) == gr.nv = 0 \/ ReachFrom(gr, {0}) = 0 .. gr.nv - 1

\* assert_connected(x) (graph.h): passes on a connected graph, leaves with
\* InvalidInput otherwise
assert_connected(gr) == IsConnected(gr)

\* R filled after the scope has opened: the synthetic vertex is in it
AllVerticesAfterScope(gr) == [x \in 1 .. gr.nv + 1 |-> x - 1]

\* lines 67 and 163-164: std::vector<Vertex> R(vertices(x).first,
\* vertices(x).second), filled before the synthetic vertex exists
AllVertices(gr) == [x \in 1 .. gr.nv |-> x - 1]

\* ----------------------------------------------------------- thorup_d ----
\* lines 67-74 once assert_connected has passed: R holds the vertices the
\* graph had before the scope opened; distances is new edge_cost[nv],
\* unwritten until the first dijkstra run
TdFrame(nperround, maxnumrounds) ==
    [R                |-> AllVertices(g),
     F                |-> <<>>,
     nperround        |-> nperround,
     maxnumrounds     |-> maxnumrounds,
     synthetic_vertex |-> g.nv,
     nv               |-> g.nv + 1,
     distances        |-> <<>>,
     written          |-> FALSE,
     randel           |-> 0,
     i                |-> 0,
     j                |-> 0,
     F0               |-> 0,
     R0               |-> <<>>]

\* lines 64-74; assert_connected runs before the scope exists
TdEnter(nperround, maxnumrounds) ==
    IF assert_connected(g)
    THEN /\ g' = ScopeOpen(g)
         /\ td' = TdFrame(nperround, maxnumrounds)
         /\ pc' = "td_for"
         /\ status' = "running"
         /\ ret' = NoRet
    ELSE /\ g' = g
         /\ td' = NoFrame
         /\ pc' = "done"
         /\ status' = "InvalidInput"
         /\ ret' = NoRet

thorup_d_call ==
    /\ pc = "idle"
    /\ \E nperround \in 0 .. MaxPerRound, maxnumrounds \in 0 .. MaxRounds :
          TdEnter(nperround, maxnumrounds)
    /\ top' = "thorup_d"
    /\ UNCHANGED <<g0, directed, gc, sfg, tsm, idnc_>>

\* lines 85-89: every vertex left in R moves to F, each wired r -> synthetic
RECURSIVE add_edges_to(_, _, _, _)
add_edges_to(dst, vs, x, gr) ==
    IF x > Len(vs) THEN gr
    ELSE add_edges_to(dst, vs, x + 1, add_edge(vs[x], dst, 0, gr))

\* lines 75-76 and 84-90: the loop test, the branch, the whole-pool move;
\* F0 and R0 keep the size of F and the pool as the round found them
td_for ==
    /\ pc = "td_for"
    /\ IF Len(td.R) > 0 /\ td.i < td.maxnumrounds
         THEN IF Len(td.R) > td.nperround
              THEN /\ td' = [td EXCEPT !.j = 0, !.F0 = Len(td.F), !.R0 = td.R]
                   /\ pc' = IF td.nperround > 0 THEN "td_draw" ELSE "td_dijkstra"
                   /\ g' = g
              ELSE /\ td' = [td EXCEPT !.F = td.F \o td.R, !.R = <<>>,
                                        !.F0 = Len(td.F), !.R0 = td.R]
                   /\ g' = add_edges_to(td.synthetic_vertex, td.R, 1, g)
                   /\ pc' = "td_dijkstra"
         ELSE /\ td' = td
              /\ g' = g
              /\ pc' = "td_exit"
    /\ UNCHANGED <<g0, directed, top, status, ret, gc, sfg, tsm, idnc_>>

\* the pop without the swap: the last element goes, the drawn one stays
PopBackOnly(R, x) == SubSeq(R, 1, Len(R) - 1)

\* lines 81-82: std::swap(r, R.back()); R.pop_back()
SwapPop(R, x) == [y \in 1 .. Len(R) - 1 |-> IF y = x THEN R[Len(R)] ELSE R[y]]

\* lines 78-80: the edge runs from the drawn vertex to the synthetic one
TdWire(r, sv, gr) == add_edge(r, sv, 0, gr)

\* lines 77-83: one pass of the j loop
td_draw ==
    /\ pc = "td_draw"
    /\ \E rnd \in RngValues :
          LET x == (rnd % Len(td.R)) + 1
              r == td.R[x]
          IN  /\ td' = [td EXCEPT !.F = Append(td.F, r),
                                  !.R = SwapPop(td.R, x),
                                  !.j = td.j + 1]
              /\ g' = TdWire(r, td.synthetic_vertex, g)
    /\ pc' = IF td.j + 1 < td.nperround THEN "td_draw" ELSE "td_dijkstra"
    /\ UNCHANGED <<g0, directed, top, status, ret, gc, sfg, tsm, idnc_>>

\* the erase with the comparison turned round: what is no nearer than the
\* pivot goes, what is nearer stays
PruneInverted(R, d, minv) == SelectSeq(R, LAMBDA x : ~(d[x] >= minv))

\* the erase with a strict comparison: the pivot's equals stay
PruneBelow(R, d, minv) == SelectSeq(R, LAMBDA x : ~(d[x] < minv))

\* lines 101 and 196-200: erase every x with d[x] <= minv
Prune(R, d, minv) == SelectSeq(R, LAMBDA x : ~(d[x] <= minv))

\* lines 92-101: the shortest-path run, the break, the pivot and the erase
td_dijkstra ==
    /\ pc = "td_dijkstra"
    /\ \E res \in dijkstra_shortest_paths(g, directed, td.synthetic_vertex) :
          IF Len(td.R) = 0
          THEN /\ td' = [td EXCEPT !.distances = res.d, !.written = TRUE]
               /\ pc' = "td_exit"
          ELSE \E rnd \in RngValues :
                  LET randel == td.R[(rnd % Len(td.R)) + 1]
                      minv == res.d[randel]
                  IN  /\ td' = [td EXCEPT !.distances = res.d,
                                          !.written = TRUE,
                                          !.randel = randel,
                                          !.R = Prune(td.R, res.d, minv),
                                          !.i = td.i + 1]
                      /\ pc' = "td_for"
    /\ UNCHANGED <<g0, directed, g, top, status, ret, gc, sfg, tsm, idnc_>>

\* what an unwritten double can hold when it is read
UninitValues == {0, 1, DBL_MAX}

\* lines 104-108: cost = distances[0] + ... + distances[nv - 2]; an array no
\* dijkstra run has written holds whatever the allocation held
TdCosts(f) ==
    IF f.written THEN {DSum(f.distances, f.nv - 1)}
    ELSE {DSum([v \in 0 .. f.nv - 2 |-> u], f.nv - 1) : u \in UninitValues}

\* lines 103-110: the second assert_connected sees the graph with the
\* synthetic vertex in it; the scope closes on either way out.  Under
\* thorup_sample_mincost the pair goes to the trial loop.
td_exit ==
    /\ pc = "td_exit"
    /\ g' = ScopeClose(td.synthetic_vertex, g)
    /\ IF ~assert_connected(g)
         THEN /\ pc' = "done"
              /\ status' = "InvalidInput"
              /\ ret' = NoRet
              /\ tsm' = tsm
         ELSE \E cost \in TdCosts(td) :
                 IF top = "thorup_d"
                 THEN /\ pc' = "done"
                      /\ status' = "ok"
                      /\ ret' = [first |-> td.F, second |-> cost]
                      /\ tsm' = tsm
                 ELSE /\ pc' = "tsm_compare"
                      /\ status' = status
                      /\ ret' = ret
                      /\ tsm' = [tsm EXCEPT !.next = [first |-> td.F, second |-> cost]]
    /\ UNCHANGED <<g0, directed, top, gc, td, sfg, idnc_>>

\* -------------------------------------------------- sample_from_graph ----
\* lines 163-173: R is filled before the scope opens; the container comes
\* in empty
sample_from_graph_call ==
    /\ pc = "idle"
    /\ \E samples_per_round \in 0 .. MaxPerRound, iterations \in 0 .. MaxRounds :
          sfg' = [R                 |-> AllVertices(g),
                  F                 |-> <<>>,
                  samples_per_round |-> samples_per_round,
                  iterations        |-> iterations,
                  synthetic_vertex  |-> g.nv,
                  iter              |-> 0,
                  i                 |-> 0,
                  el                |-> 0,
                  marks             |-> <<>>,
                  pools             |-> <<>>]
    /\ g' = ScopeOpen(g)
    /\ top' = "sample_from_graph"
    /\ pc' = "sfg_for"
    /\ status' = "running"
    /\ UNCHANGED <<g0, directed, ret, gc, td, tsm, idnc_>>

\* line 174: the loop test; marks and pools keep, for every round begun, the
\* size F and R had when it began
sfg_for ==
    /\ pc = "sfg_for"
    /\ IF sfg.iter < sfg.iterations /\ Len(sfg.R) > 0
         THEN /\ sfg' = [sfg EXCEPT !.i = 0,
                                    !.marks = Append(sfg.marks, Len(sfg.F)),
                                    !.pools = Append(sfg.pools, Len(sfg.R))]
              /\ pc' = IF sfg.samples_per_round > 0 THEN "sfg_draw" ELSE "sfg_round"
         ELSE /\ sfg' = sfg
              /\ pc' = "sfg_exit"
    /\ UNCHANGED <<g0, directed, g, top, status, ret, gc, td, tsm, idnc_>>

\* one draw that takes the drawn vertex out of R, as thorup_d's does, the
\* loop ending early on an empty R
sfg_draw_without_replacement ==
    /\ pc = "sfg_draw"
    /\ \E rnd \in RngValues :
          LET x == (rnd % Len(sfg.R)) + 1
          IN  /\ sfg' = [sfg EXCEPT !.F = Append(sfg.F, sfg.R[x]),
                                    !.R = SwapPop(sfg.R, x),
                                    !.i = sfg.i + 1]
              /\ pc' = IF sfg.i + 1 < sfg.samples_per_round /\ Len(sfg.R) > 1
                         THEN "sfg_draw" ELSE "sfg_round"
    /\ UNCHANGED <<g0, directed, g, top, status, ret, gc, td, tsm, idnc_>>

\* lines 177-180: one draw; the drawn vertex stays in R
sfg_draw ==
    /\ pc = "sfg_draw"
    /\ \E rnd \in RngValues :
          sfg' = [sfg EXCEPT !.F = Append(sfg.F, sfg.R[(rnd % Len(sfg.R)) + 1]),
                             !.i = sfg.i + 1]
    /\ pc' = IF sfg.i + 1 < sfg.samples_per_round THEN "sfg_draw" ELSE "sfg_round"
    /\ UNCHANGED <<g0, directed, g, top, status, ret, gc, td, tsm, idnc_>>

\* lines 182-200: wire all of F, run dijkstra, clear the synthetic vertex,
\* draw the pivot, erase
sfg_round ==
    /\ pc = "sfg_round"
    /\ LET wired == add_edges_from(sfg.synthetic_vertex, sfg.F, 1, g)
       IN  /\ \E res \in dijkstra_shortest_paths(wired, directed, sfg.synthetic_vertex) :
                \E rnd \in RngValues :
                   LET el == sfg.R[(rnd % Len(sfg.R)) + 1]
                       minv == res.d[el]
                   IN  sfg' = [sfg EXCEPT !.R = Prune(sfg.R, res.d, minv),
                                          !.el = el,
                                          !.iter = sfg.iter + 1]
           /\ g' = clear_vertex(sfg.synthetic_vertex, wired)
    /\ pc' = "sfg_for"
    /\ UNCHANGED <<g0, directed, top, status, ret, gc, td, tsm, idnc_>>

\* lines 205-207 and the scope's end
sfg_exit ==
    /\ pc = "sfg_exit"
    /\ g' = ScopeClose(sfg.synthetic_vertex, clear_vertex(sfg.synthetic_vertex, g))
    /\ ret' = sfg.F
    /\ status' = "ok"
    /\ pc' = "done"
    /\ UNCHANGED <<g0, directed, top, gc, td, sfg, tsm, idnc_>>

\* ---------------------------------------------------------- get_costs ----
\* lines 216-234: nv is read before the scope opens, so the synthetic
\* vertex is nv; the three vectors have nv + 1 entries, assignments
\* value-initialised to 0.  pid2ind keeps the last index of a repeated vertex.
GcFrame(container, g2, sv, res) ==
    [container        |-> container,
     nv               |-> sv,
     synthetic_vertex |-> sv,
     assignments      |-> [v \in 0 .. g2.nv - 1 |-> 0],
     costs            |-> res.d,
     p                |-> res.p,
     pid2ind          |-> [v \in SeqRange(container) |->
                             CHOOSE x \in 0 .. Len(container) - 1 :
                                /\ container[x + 1] = v
                                /\ \A y \in x + 1 .. Len(container) - 1 :
                                      container[y + 1] # v],
     i                |-> 0,
     parent           |-> sv,
     newparent        |-> sv,
     hops             |-> 0]

\* the wiring with source and target exchanged, as thorup_d writes it
GcWireReversed(sv, container, gr) == add_edges_to(sv, container, 1, gr)

\* lines 224-226: the edge runs from the synthetic vertex to each member
GcWire(sv, container, gr) == add_edges_from(sv, container, 1, gr)

GcEnter(container) ==
    LET sv == g.nv
        g2 == GcWire(sv, container, ScopeOpen(g))
    IN  \E res \in dijkstra_shortest_paths(g2, directed, sv) :
           /\ g' = g2
           /\ gc' = GcFrame(container, g2, sv, res)
           /\ pc' = "gc_for"

\* a caller hands get_costs a graph and a SampleSet of its vertices
get_costs_call ==
    /\ pc = "idle"
    /\ \E container \in SeqsUpTo(RealVertices, MaxContainer) : GcEnter(container)
    /\ top' = "get_costs"
    /\ status' = "running"
    /\ UNCHANGED <<g0, directed, ret, td, sfg, tsm, idnc_>>

\* lines 242-243: the for header and the first two predecessor reads
gc_for ==
    /\ pc = "gc_for"
    /\ IF gc.i < gc.nv
         THEN /\ gc' = [gc EXCEPT !.parent = gc.p[gc.i],
                                  !.newparent = gc.p[gc.p[gc.i]],
                                  !.hops = 0]
              /\ pc' = "gc_while"
         ELSE /\ gc' = gc
              /\ pc' = "gc_return"
    /\ UNCHANGED <<g0, directed, g, top, status, ret, td, sfg, tsm, idnc_>>

NotFound == 0 - 1

\* lines 250-257: it == pid2ind.end() ? pid2ind.at(i) : it->second
GcLookup(f) ==
    IF f.parent \in DOMAIN f.pid2ind THEN f.pid2ind[f.parent]
    ELSE IF f.i \in DOMAIN f.pid2ind THEN f.pid2ind[f.i]
    ELSE NotFound

\* line 244: the while condition
GcWalks(f) == f.newparent # f.synthetic_vertex

\* lines 244-258: one test of the while condition, then either one pass of
\* its body or the assignment of vertex i.  hops counts the passes spent on
\* vertex i, recorded up to MaxHops.
gc_while ==
    /\ pc = "gc_while"
    /\ IF GcWalks(gc)
         THEN /\ gc' = [gc EXCEPT !.parent = gc.newparent,
                                  !.newparent = gc.p[gc.newparent],
                                  !.hops = Min2(gc.hops + 1, MaxHops)]
              /\ UNCHANGED <<g, pc, status, ret>>
         ELSE IF GcLookup(gc) # NotFound
         THEN /\ gc' = [gc EXCEPT !.assignments[gc.i] = GcLookup(gc),
                                  !.i = gc.i + 1]
              /\ pc' = "gc_for"
              /\ UNCHANGED <<g, status, ret>>
         ELSE \* pid2ind.at(i) throws std::out_of_range; the scope unwinds
              /\ g' = ScopeClose(gc.synthetic_vertex, g)
              /\ gc' = gc
              /\ pc' = "done"
              /\ status' = "out_of_range"
              /\ ret' = NoRet
    /\ UNCHANGED <<g0, directed, top, td, sfg, tsm, idnc_>>

\* lines 259-264: assignments.pop_back(), costs.resize(nv), the pair
GcResult(f) ==
    [costs       |-> [v \in 0 .. f.nv - 1 |-> f.costs[v]],
     assignments |-> [v \in 0 .. Cardinality(DOMAIN f.assignments) - 2 |->
                        f.assignments[v]]]

\* the pair built from the cost vector instead of the assignments
TsmResultCosts(bestsol, res) == <<bestsol.first, res.costs>>

\* line 292: std::make_pair(std::move(bestsol.first), std::move(assignments))
TsmResult(bestsol, res) == <<bestsol.first, res.assignments>>

\* lines 259-264 and the scope's end; under thorup_sample_mincost the pair
\* comes back to line 289 and line 292 returns
gc_return ==
    /\ pc = "gc_return"
    /\ g' = ScopeClose(gc.synthetic_vertex, g)
    /\ ret' = IF top = "get_costs" THEN GcResult(gc)
              ELSE TsmResult(tsm.bestsol, GcResult(gc))
    /\ status' = "ok"
    /\ pc' = "done"
    /\ UNCHANGED <<g0, directed, top, gc, td, sfg, tsm, idnc_>>

\* ---------------------------------------------- thorup_sample_mincost ----
\* std::log2(n) to four decimals, times 10000
Log2e4(n) ==
    CASE n = 1 -> 0
      [] n = 2 -> 10000
      [] n = 3 -> 15850
      [] n = 4 -> 20000
      [] n = 5 -> 23220
      [] OTHER -> 25850

\* line 277: std::ceil(21. * k * logn / eps), eps = 0.5
SamplesPerRound(k, n) == (21 * k * Log2e4(n) * 2 + 9999) \div 10000

\* lines 280 and 283: 3 * logn, converted to size_t
MaxNumRounds(n) == (3 * Log2e4(n)) \div 10000

\* the comparison with <= for <: a later trial of equal cost replaces
ImprovesOrTies(next, bestsol) == next.second <= bestsol.second

\* line 284
Improves(next, bestsol) == next.second < bestsol.second

\* lines 274-280: the parameters, then the first trial.  costs, sets, kept
\* and gc_calls record the history of the call: each trial's cost and
\* SampleSet, the trial whose pair bestsol holds, the get_costs invocations.
TsmFrame(k, num_iter, samples_per_round, maxnumrounds) ==
    [k                 |-> k,
     num_iter          |-> num_iter,
     samples_per_round |-> samples_per_round,
     maxnumrounds      |-> maxnumrounds,
     i                 |-> 0,
     bestsol           |-> [first |-> <<>>, second |-> 0],
     next              |-> [first |-> <<>>, second |-> 0],
     costs             |-> <<>>,
     sets              |-> <<>>,
     kept              |-> 0,
     gc_calls          |-> 0]

thorup_sample_mincost_call ==
    /\ pc = "idle"
    /\ \E k \in 0 .. MaxK, num_iter \in 0 .. MaxTrials :
          /\ tsm' = TsmFrame(k, num_iter, SamplesPerRound(k, g.nv), MaxNumRounds(g.nv))
          /\ TdEnter(SamplesPerRound(k, g.nv), MaxNumRounds(g.nv))
    /\ top' = "thorup_sample_mincost"
    /\ UNCHANGED <<g0, directed, gc, sfg, idnc_>>

\* lines 269-280 on a graph past the size that can be enumerated: line 277
\* makes samples_per_round at least 42 * k, which stays above the pool size
\* until the graph has some hundreds of vertices, so that on the graphs of
\* InputGraphs every trial of thorup_sample_mincost_call takes the whole
\* pool.  Here the two values handed to thorup_d come from the small ranges
\* thorup_d_call uses, so that trials draw and differ; the trial loop, the
\* comparison and the get_costs call are those of the call above.
thorup_sample_mincost_large ==
    /\ pc = "idle"
    /\ g.nv >= 2
    /\ \E num_iter \in 0 .. MaxTrials, samples_per_round \in 1 .. MaxPerRound :
          /\ tsm' = TsmFrame(1, num_iter, samples_per_round, 1)
          /\ TdEnter(samples_per_round, 1)
    /\ top' = "thorup_sample_mincost"
    /\ UNCHANGED <<g0, directed, gc, sfg, idnc_>>

\* line 280 (the first pair becomes bestsol) and lines 284-287
tsm_compare ==
    /\ pc = "tsm_compare"
    /\ LET take == tsm.i = 0 \/ Improves(tsm.next, tsm.bestsol)
       IN  tsm' = [tsm EXCEPT
                     !.bestsol = IF take THEN tsm.next ELSE tsm.bestsol,
                     !.next    = IF take /\ tsm.i > 0 THEN tsm.bestsol ELSE tsm.next,
                     !.kept    = IF take THEN Len(tsm.costs) + 1 ELSE tsm.kept,
                     !.costs   = Append(tsm.costs, tsm.next.second),
                     !.sets    = Append(tsm.sets, tsm.next.first),
                     !.i       = IF tsm.i = 0 THEN 1 ELSE tsm.i + 1]
    /\ pc' = "tsm_for"
    /\ UNCHANGED <<g0, directed, g, top, status, ret, gc, td, sfg, idnc_>>

\* line 281: another trial while i < num_iter, else line 289
tsm_for ==
    /\ pc = "tsm_for"
    /\ IF tsm.i < tsm.num_iter
         THEN /\ TdEnter(tsm.samples_per_round, tsm.maxnumrounds)
              /\ tsm' = tsm
              /\ gc' = gc
         ELSE /\ GcEnter(tsm.bestsol.first)
              /\ tsm' = [tsm EXCEPT !.gc_calls = tsm.gc_calls + 1]
              /\ UNCHANGED <<td, status, ret>>
    /\ UNCHANGED <<g0, directed, top, sfg, idnc_>>

\* --------------------------------------------------------------- idnc ----
\* random_sample (lines 325-336): throw 1 when n >= v.size(), else n
\* pairwise different items of v
random_sample(V, n) ==
    {s \in SeqsUpTo(V, n) : Len(s) = n /\ \A x, y \in 1 .. n : x # y => s[x] # s[y]}

\* lines 378-399: the sample, the scope, the wiring, the first dijkstra run
idnc_call ==
    /\ pc = "idle"
    /\ top' = "idnc"
    /\ \E k \in 0 .. MaxK :
          IF k >= g.nv
          THEN /\ pc' = "done"
               /\ status' = "InvalidArgument"
               /\ g' = g
               /\ idnc_' = NoFrame
          ELSE \E sp \in random_sample(RealVertices, k) :
                  LET sv == g.nv
                      g2 == add_edges_from(sv, sp, 1, clear_vertex(sv, ScopeOpen(g)))
                  IN  \E res \in dijkstra_shortest_paths(g2, directed, sv) :
                         /\ g' = g2
                         /\ idnc_' = [k |-> k, sp |-> sp, s |-> <<>>,
                                      synthetic_vertex |-> sv,
                                      last_cost |-> DSum(res.d, g2.nv)]
                         /\ pc' = "idnc_loop"
                         /\ status' = "running"
    /\ UNCHANGED <<g0, directed, ret, gc, td, sfg, tsm>>

\* lines 400-403: parallel_goldman_1median (line 360) throws
\* std::runtime_error("Not implemented"); the scope unwinds
idnc_loop ==
    /\ pc = "idnc_loop"
    /\ idnc_' = [idnc_ EXCEPT !.s = idnc_.sp, !.sp = <<>>]
    /\ g' = ScopeClose(idnc_.synthetic_vertex, g)
    /\ pc' = "done"
    /\ status' = "NotImplemented"
    /\ UNCHANGED <<g0, directed, top, ret, gc, td, sfg, tsm>>

\* ------------------------------------------------------------- caller ----
\* the caller takes the result; the callee's locals are gone
Return ==
    /\ pc = "done"
    /\ pc' = "idle"
    /\ top' = "idle"
    /\ status' = "idle"
    /\ ret' = NoRet
    /\ gc' = NoFrame
    /\ td' = NoFrame
    /\ sfg' = NoFrame
    /\ tsm' = NoFrame
    /\ idnc_' = NoFrame
    /\ UNCHANGED <<g0, directed, g>>

\* ------------------------------------------------------ specification ----
Init ==
    /\ directed \in BOOLEAN
    /\ g0 \in InputGraphs(directed)
    /\ g = g0
    /\ top = "idle"
    /\ pc = "idle"
    /\ status = "idle"
    /\ ret = NoRet
    /\ gc = NoFrame
    /\ td = NoFrame
    /\ sfg = NoFrame
    /\ tsm = NoFrame
    /\ idnc_ = NoFrame

Next ==
    \/ get_costs_call
    \/ gc_for
    \/ gc_while
    \/ gc_return
    \/ thorup_d_call
    \/ td_for
    \/ td_draw
    \/ td_dijkstra
    \/ td_exit
    \/ sample_from_graph_call
    \/ sfg_for
    \/ sfg_draw
    \/ sfg_round
    \/ sfg_exit
    \/ thorup_sample_mincost_call
    \/ tsm_compare
    \/ tsm_for
    \/ idnc_call
    \/ idnc_loop
    \/ Return

Spec == Init /\ [][Next]_vars

\* thorup_sample_mincost alone, with the trials of larger graphs added
NextTrials ==
    \/ thorup_sample_mincost_call
    \/ thorup_sample_mincost_large
    \/ td_for
    \/ td_draw
    \/ td_dijkstra
    \/ td_exit
    \/ tsm_compare
    \/ tsm_for
    \/ gc_for
    \/ gc_while
    \/ gc_return
    \/ Return

SpecTrials == Init /\ [][NextTrials]_vars

\* =================================================== properties ==========
\* Shortest-path distances of the caller's graph, computed edge by edge
\* without the synthetic vertex: the least weight of a path of at most k
\* edges from u to v.
InEdges0(v) ==
    {<<g0.E[x][1], g0.E[x][3]>> : x \in {y \in DOMAIN g0.E : g0.E[y][2] = v}}
    \cup (IF directed THEN {}
          ELSE {<<g0.E[x][2], g0.E[x][3]>> : x \in {y \in DOMAIN g0.E : g0.E[y][1] = v}})

RECURSIVE DistWithin(_, _, _)
DistWithin(u, v, k) ==
    IF k = 0 THEN (IF u = v THEN 0 ELSE DBL_MAX)
    ELSE SetMin({DistWithin(u, v, k - 1)}
                \cup {DAdd(DistWithin(u, e[1], k - 1), e[2]) : e \in InEdges0(v)})

TrueDist(u, v) == DistWithin(u, v, g0.nv - 1)

NearestDist(S, v) == IF S = {} THEN DBL_MAX ELSE SetMin({TrueDist(f, v) : f \in S})

RECURSIVE SumOver(_, _)
SumOver(f, n) == IF n = 0 THEN 0 ELSE SumOver(f, n - 1) + f[n - 1]

ExpectedCost(F) == SumOver([v \in RealVertices |-> NearestDist(SeqRange(F), v)], g0.nv)

\* C2: on a connected graph, directed or undirected, with nperround >= 1 and
\* maxnumrounds >= 1, the cost thorup_d returns is the sum over the real
\* vertices of the shortest-path distance from the nearest returned member.
C2_CostIsSumOfNearestDistances ==
    (/\ top = "thorup_d" /\ pc = "done"
     /\ IsConnected(g0) /\ td # NoFrame
     /\ td.nperround >= 1 /\ td.maxnumrounds >= 1) =>
        /\ status = "ok"
        /\ ret.second = ExpectedCost(ret.first)

\* the same statement for undirectedS graphs only
C2_UndirectedCost == directed \/ C2_CostIsSumOfNearestDistances

\* ---- C3 ------------------------------------------------------------------
\* C3: between calls and on every way out of a call, a thrown failure
\* included, the graph is the one the caller handed in; inside
\* thorup_sample_mincost that also holds between two trials and before
\* get_costs starts; the graph never holds more than one synthetic vertex.
C3_GraphRestored ==
    /\ (pc \in {"idle", "done", "tsm_compare", "tsm_for"}) => g = g0
    /\ g.nv <= g0.nv + 1
    /\ \A x \in DOMAIN g.E : g.E[x][1] < g.nv /\ g.E[x][2] < g.nv

\* idnc has left through parallel_goldman_1median's exception after wiring
\* a sampled vertex to the synthetic one
C3_Witness ==
    /\ top = "idnc" /\ pc = "done" /\ status = "NotImplemented"
    /\ Len(idnc_.s) = 1 /\ g0.E # <<>>

\* ---- C4 ------------------------------------------------------------------
Max2(a, b) == IF a >= b THEN a ELSE b

\* C4: once the first trial is in, bestsol is the pair of one of the trials
\* run so far, its cost is at most the cost of each of them, and every
\* earlier trial costs strictly more (a tie keeps the earliest); the call
\* returns that trial's SampleSet after max(1, num_iter) trials, and with at
\* most one trial it returns the first trial's SampleSet.
C4_BestOfTrials ==
    (top = "thorup_sample_mincost" /\ tsm.costs # <<>>) =>
        /\ tsm.kept \in 1 .. Len(tsm.costs)
        /\ tsm.bestsol = [first |-> tsm.sets[tsm.kept], second |-> tsm.costs[tsm.kept]]
        /\ \A t \in 1 .. Len(tsm.costs) : tsm.costs[tsm.kept] <= tsm.costs[t]
        /\ \A t \in 1 .. tsm.kept - 1 : tsm.costs[t] > tsm.costs[tsm.kept]
        /\ (pc = "done" /\ status = "ok") =>
              /\ Len(tsm.costs) = Max2(1, tsm.num_iter)
              /\ ret[1] = tsm.sets[tsm.kept]
              /\ (tsm.num_iter <= 1) => ret[1] = tsm.sets[1]

\* thorup_sample_mincost has returned after two trials of which the second
\* was strictly cheaper and replaced the first
C4_Witness ==
    /\ top = "thorup_sample_mincost" /\ pc = "done" /\ status = "ok"
    /\ Len(tsm.costs) = 2 /\ tsm.kept = 2
    /\ tsm.costs[2] < tsm.costs[1]
    /\ ret[1] = tsm.sets[2] /\ tsm.sets[2] # tsm.sets[1]

\* ---- C5 ------------------------------------------------------------------
GcRunning == pc \in {"gc_for", "gc_while", "gc_return"}

C7_SampleSetBounded ==
    (top = "sample_from_graph") =>
        /\ Len(sfg.F) <= sfg.samples_per_round * sfg.iterations
        /\ \A x \in DOMAIN sfg.F :
              sfg.F[x] \in RealVertices /\ sfg.F[x] # sfg.synthetic_vertex
        /\ (pc = "done") => (status = "ok" /\ ret = sfg.F)

\* sample_from_graph has returned a full SampleSet drawn in two rounds, one
\* vertex drawn twice
C7_Witness ==
    /\ top = "sample_from_graph" /\ pc = "done"
    /\ sfg.samples_per_round = 2 /\ sfg.iterations = 2 /\ sfg.iter = 2
    /\ Len(ret) = 4
    /\ \E x, y \in DOMAIN ret : x # y /\ ret[x] = ret[y]

\* ---- C8 ------------------------------------------------------------------
\* some real vertex has no SampleSet member to reach it
Unserved(container) ==
    \E v \in RealVertices : ~IsFinite(NearestDist(SeqRange(container), v))

\* C8: when some real vertex's predecessor chain leads to no SampleSet
\* member, get_costs ends with AssignmentFailure: the walk does not go on
\* for more passes than the graph has vertices (a walk over nv + 1
\* predecessor entries that has not stopped by then repeats for ever), and
\* the call does not come back with an assignment vector.
C8_AssignmentFailureExplicit ==
    (top = "get_costs" /\ Unserved(gc.container)) =>
        /\ gc.hops <= g0.nv + 1
        /\ (pc = "done") => (status = "AssignmentFailure" /\ ret = NoRet)

\* ---- C9 ------------------------------------------------------------------
Samplers == {"sample_from_graph", "thorup_d", "thorup_sample_mincost"}

\* C9: a sampler invoked on a disconnected graph ends in InvalidInput,
\* returns no SampleSet and leaves the graph as it was.
C9_DisconnectedRejected ==
    (top \in Samplers /\ ~IsConnected(g0) /\ pc = "done") =>
        /\ status = "InvalidInput"
        /\ ret = NoRet
        /\ g = g0

\* the part of C9 that thorup_d and thorup_sample_mincost keep
C9_ThorupDRejects ==
    (top \in {"thorup_d", "thorup_sample_mincost"} /\ ~IsConnected(g0)) =>
        /\ g = g0
        /\ status # "ok"

\* ---- C10 -----------------------------------------------------------------
\* a dijkstra run of the call has left a real vertex without a finite,
\* non-negative distance
BadDistance(d) == \E v \in RealVertices : ~IsFinite(d[v]) \/ d[v] < 0

\* C10: a call of thorup_d or get_costs whose shortest-path run left a real
\* vertex at a negative or non-finite distance, or whose summed cost is not
\* finite, ends with NumericInvariantViolation and hands back nothing.
C10_NumericGuard ==
    /\ (top = "thorup_d" /\ pc = "done" /\ td # NoFrame /\ td.written
          /\ BadDistance(td.distances)) =>
          (status = "NumericInvariantViolation" /\ ret = NoRet)
    /\ (top = "thorup_d" /\ pc = "done" /\ status = "ok") => IsFinite(ret.second)
    /\ (top = "get_costs" /\ pc = "done" /\ BadDistance(gc.costs)) =>
          (status = "NumericInvariantViolation" /\ ret = NoRet)

\* ---- C11 -----------------------------------------------------------------
\* the draws of the round of sample_from_graph that is under way
SfgDrawn == Len(sfg.F) - sfg.marks[Len(sfg.marks)]

\* C11 as claimed: when a round of sample_from_graph that began with a
\* non-empty pool has made its draws, exactly min(s, |pool|) vertices have
\* been appended to F, |pool| being the pool size when the round began.
C11_DrawsMinOfCapAndPool ==
    (top = "sample_from_graph" /\ pc = "sfg_round") =>
        SfgDrawn = Min2(sfg.samples_per_round, sfg.pools[Len(sfg.pools)])

\* C11 as amended: such a round appends exactly s vertices, each an element
\* of the pool as it was when the round began (the pool is untouched while
\* drawing, so a vertex may be drawn again), whatever the pool size.
C11_DrawsExactlyCap ==
    (top = "sample_from_graph" /\ sfg.marks # <<>>) =>
        /\ Len(sfg.pools) = Len(sfg.marks)
        /\ sfg.pools[Len(sfg.pools)] >= 1
        /\ \A r \in DOMAIN sfg.marks : sfg.marks[r] = (r - 1) * sfg.samples_per_round
        /\ (pc = "sfg_draw") =>
              (SfgDrawn = sfg.i /\ sfg.i < sfg.samples_per_round
                 /\ Len(sfg.R) = sfg.pools[Len(sfg.pools)])
        /\ (pc = "sfg_round") =>
              /\ SfgDrawn = sfg.samples_per_round
              /\ Len(sfg.R) = sfg.pools[Len(sfg.pools)]
              /\ \A x \in sfg.marks[Len(sfg.marks)] + 1 .. Len(sfg.F) :
                    sfg.F[x] \in SeqRange(sfg.R)

\* a round that began with a one-vertex pool has drawn that vertex twice
C11_Witness ==
    /\ top = "sample_from_graph" /\ pc = "sfg_round"
    /\ sfg.pools[Len(sfg.pools)] = 1 /\ sfg.samples_per_round = 2
    /\ SfgDrawn = 2
    /\ sfg.F[Len(sfg.F)] = sfg.F[Len(sfg.F) - 1]

\* ---- C12 -----------------------------------------------------------------
TdPcs == {"td_for", "td_draw", "td_dijkstra", "td_exit"}
SfgPcs == {"sfg_for", "sfg_draw", "sfg_round", "sfg_exit"}

\* no step of a thorup_d run lets R grow; a draw and a pivot prune make it
\* strictly smaller, and the pivot is among what the prune removes
C12_TdStep ==
    (pc \in TdPcs) =>
        /\ Len(td'.R) <= Len(td.R)
        /\ (pc = "td_draw") => Len(td'.R) < Len(td.R)
        /\ (pc = "td_dijkstra" /\ Len(td.R) > 0) =>
              /\ Len(td'.R) < Len(td.R)
              /\ td'.randel \in SeqRange(td.R) \ SeqRange(td'.R)

\* the same for sample_from_graph, whose every round prunes with a pivot
C12_SfgStep ==
    (pc \in SfgPcs) =>
        /\ Len(sfg'.R) <= Len(sfg.R)
        /\ (pc = "sfg_round") =>
              /\ Len(sfg'.R) < Len(sfg.R)
              /\ sfg'.el \in SeqRange(sfg.R) \ SeqRange(sfg'.R)

\* rounds begun never exceed the configured number, the pool sizes noted at
\* the rounds' beginnings fall strictly, and the loop is left only with the
\* pool empty or the round limit reached
C12_RoundsBounded ==
    /\ (pc \in TdPcs) =>
          /\ td.i <= td.maxnumrounds
          /\ (pc \in {"td_draw", "td_dijkstra"}) => td.i < td.maxnumrounds
          /\ (pc = "td_exit") => (Len(td.R) = 0 \/ td.i = td.maxnumrounds)
    /\ (pc \in SfgPcs) =>
          /\ sfg.iter <= sfg.iterations
          /\ Len(sfg.pools) <= sfg.iterations
          /\ \A r \in 1 .. Len(sfg.pools) - 1 : sfg.pools[r + 1] < sfg.pools[r]
          /\ (sfg.pools # <<>>) => Len(sfg.R) <= sfg.pools[Len(sfg.pools)]
          /\ (pc = "sfg_round") => sfg.iter < sfg.iterations
          /\ (pc = "sfg_exit") => (Len(sfg.R) = 0 \/ sfg.iter = sfg.iterations)

\* what is left of a thorup_d run: rounds not yet begun, weighed by the
\* most steps one round takes, plus the steps left in the round under way
TdVariant ==
    (td.maxnumrounds - td.i) * (td.nperround + 3)
      + CASE pc = "td_for"      -> td.nperround + 2
          [] pc = "td_draw"     -> td.nperround - td.j + 1
          [] pc = "td_dijkstra" -> 1
          [] OTHER              -> 0

SfgVariant ==
    (sfg.iterations - sfg.iter) * (sfg.samples_per_round + 3)
      + CASE pc = "sfg_for"   -> sfg.samples_per_round + 2
          [] pc = "sfg_draw"  -> sfg.samples_per_round - sfg.i + 1
          [] pc = "sfg_round" -> 1
          [] OTHER            -> 0

\* every step inside a run brings it nearer its end, so no run goes on for
\* ever
C12_Progress ==
    /\ (pc \in TdPcs /\ pc' \in TdPcs) => (TdVariant' < TdVariant /\ TdVariant' >= 0)
    /\ (pc \in SfgPcs /\ pc' \in SfgPcs) => (SfgVariant' < SfgVariant /\ SfgVariant' >= 0)
    /\ (pc = "td_exit") => (pc' \in {"done", "tsm_compare"})
    /\ (pc = "sfg_exit") => (pc' = "done")

\* C12: in sample_from_graph and thorup_d the pool never grows, is strictly
\* smaller after every round that prunes with a pivot (the pivot is
\* removed), at most the configured number of rounds is begun, the loop
\* ends with the pool empty or the round limit reached, and the number of
\* steps a run can still take falls with every step.
C12_PoolShrinksAndTerminates ==
    /\ [][C12_TdStep /\ C12_SfgStep /\ C12_Progress]_vars
    /\ [](C12_RoundsBounded)

\* sample_from_graph has pruned with a pivot twice, the pool going from three
\* vertices to two to one, and leaves its loop at the round limit with the
\* pool not empty
C12_Witness ==
    /\ top = "sample_from_graph" /\ pc = "sfg_exit"
    /\ sfg.iter = 2 /\ sfg.iterations = 2
    /\ sfg.pools = <<3, 2>> /\ Len(sfg.R) = 1

\* ---- C13 -----------------------------------------------------------------
NoDuplicates(F) == \A x, y \in DOMAIN F : x # y => F[x] # F[y]

\* the edges of gr that touch vertex v
EdgesAt(gr, v) == {e \in DOMAIN gr.E : gr.E[e][1] = v \/ gr.E[e][2] = v}

\* what the round of thorup_d under way has appended to F
TdAdded == SubSeq(td.F, td.F0 + 1, Len(td.F))

\* C13: when a round of thorup_d reaches its shortest-path run, a pool that
\* held more than nperround vertices has lost exactly nperround pairwise
\* distinct ones to F, any other pool has gone to F whole and is empty;
\* throughout a run the edges at the synthetic vertex are one zero-weight
\* edge per member of F, those of earlier rounds among them, and nothing
\* else; F never holds a vertex twice, nor does the returned SampleSet.
C13_RoundMovesDistinctVertices ==
    /\ (pc \in TdPcs) =>
          /\ NoDuplicates(td.F)
          /\ SeqRange(td.F) \cap SeqRange(td.R) = {}
          /\ Cardinality(EdgesAt(g, td.synthetic_vertex)) = Len(td.F)
          /\ \A x \in DOMAIN td.F :
                \E e \in EdgesAt(g, td.synthetic_vertex) :
                   g.E[e] = <<td.F[x], td.synthetic_vertex, 0>>
    /\ (pc = "td_dijkstra") =>
          /\ SeqRange(TdAdded) \cup SeqRange(td.R) = SeqRange(td.R0)
          /\ IF Len(td.R0) > td.nperround
               THEN /\ Len(TdAdded) = td.nperround
                    /\ Len(td.R) = Len(td.R0) - td.nperround
               ELSE /\ TdAdded = td.R0
                    /\ td.R = <<>>
    /\ (top = "thorup_d" /\ pc = "done" /\ status = "ok") => NoDuplicates(ret.first)

\* the second round of a thorup_d run is at its shortest-path run: the first
\* round drew one vertex of three, the second took the one the prune left,
\* and both edges are at the synthetic vertex
C13_Witness ==
    /\ top = "thorup_d" /\ pc = "td_dijkstra"
    /\ td.i = 1 /\ td.nperround = 1 /\ td.F0 = 1
    /\ Len(td.F) = 2 /\ td.R = <<>>
    /\ Cardinality(EdgesAt(g, td.synthetic_vertex)) = 2

\* ---- C14 -----------------------------------------------------------------
\* the round of sample_from_graph in which F[x] was drawn
SfgRoundOf(x) == Cardinality({r \in DOMAIN sfg.marks : sfg.marks[r] < x})

\* C14: whenever a round of either sampler is complete, the pool and F have
\* no vertex in common; in sample_from_graph a vertex that stands twice in
\* F was drawn twice within one round, never in two different rounds.
C14_PoolAndSampleSetDisjoint ==
    /\ (pc \in {"td_for", "td_exit"}) =>
          SeqRange(td.F) \cap SeqRange(td.R) = {}
    /\ (pc \in {"sfg_for", "sfg_exit"}) =>
          /\ SeqRange(sfg.F) \cap SeqRange(sfg.R) = {}
          /\ \A x, y \in DOMAIN sfg.F :
                (sfg.F[x] = sfg.F[y]) => SfgRoundOf(x) = SfgRoundOf(y)
    /\ (top = "sample_from_graph" /\ pc = "done") =>
          \A x, y \in DOMAIN ret : (ret[x] = ret[y]) => SfgRoundOf(x) = SfgRoundOf(y)

\* two rounds of sample_from_graph are complete: the first drew one vertex
\* twice, the second drew another, and the pool still holds a third
C14_Witness ==
    /\ top = "sample_from_graph" /\ pc = "sfg_for"
    /\ sfg.iter = 2 /\ sfg.samples_per_round = 2 /\ Len(sfg.F) = 4
    /\ sfg.F[1] = sfg.F[2] /\ sfg.F[3] # sfg.F[1]
    /\ Len(sfg.R) = 1

====
